---- MODULE Spec2Model ----
(***************************************************************************)
(* A model of spruned's multi-source aggregation and Electrum connection   *)
(* pool:                                                                   *)
(*   - SprunedVOService._join_data, getblock, getrawtransaction and the    *)
(*     cache they use (service/spruned_vo_service.py,                      *)
(*     service/file_cache_interface.py);                                   *)
(*   - ElectrodConnectionPool.call                                         *)
(*     (daemon/electrod/electrod_connection.py);                           *)
(*   - the peer life cycle: keepalive, connect, error events, the pool's   *)
(*     error handler, ping and disconnect (same file).                     *)
(*                                                                         *)
(* Python values are encoded as integers so that every comparison the      *)
(* code makes is a comparison the model can make: None is -1, hashes,      *)
(* raw transactions and RPC payloads are small positive integers, and 0    *)
(* stands for the falsy non-None values (0, '', [], {}).                   *)
(*                                                                         *)
(* The module holds these specifications over one set of variables; each   *)
(* leaves the variables of the others at their initial value:              *)
(*   SpecJoin     _join_data applied to bounded lists of responses         *)
(*   SpecService  add_service, add_primary_service, add_cache, getblock    *)
(*                and getrawtransaction in any order                       *)
(*   SpecCall     ElectrodConnectionPool.call on bounded pool states       *)
(*   SpecPool     the pool's tasks on the asyncio event loop               *)
(*   SpecPoolFair SpecPool with the scheduling of the event loop           *)
(*   SpecFile     FileCacheInterface on a bounded directory                *)
(*   SpecHeaders  the headers reactor and the callbacks builder registers  *)
(*   SpecPick     add_service, add_primary_service and _pick_services      *)
(***************************************************************************)
EXTENDS Integers, Sequences, FiniteSets, TLC

VARIABLES
    jIn,        \* SpecJoin: the responses as the caller built them
    jData,      \* SpecJoin: the list object `data` handed to _join_data
    jOut,       \* SpecJoin: what _join_data did with it
    jpc,        \* SpecJoin: "input" before the call, "done" after it
    cache,      \* SpecService: the cache, a map from <<namespace, key>>
    hasCache,   \* SpecService: add_cache was called (self.cache is set)
    sres,       \* SpecService: the last getblock / getrawtransaction call
    cpool,      \* SpecCall: the pool's _connections, a list of peers
    cerrs,      \* SpecCall: the on_error events since the call began
    cres,       \* SpecCall: the last ElectrodConnectionPool.call
    cpc,        \* SpecCall: "ready" before the operation, "awaiting" while
                \* call awaits its peers, "done" after it
    required,   \* SpecPool: _required_connections
    keepalive,  \* SpecPool: _keepalive
    ploop,      \* SpecPool: the loops of connect() that are in their sleep
    cstasks,    \* SpecPool: the _connect_servers tasks created and not yet
                \* run, the howmany of each
    hung,       \* SpecPool: the event loop is stuck in a loop that never ends
    peers,      \* SpecPool: per server, its peer in _connections and its tasks
    files,      \* SpecFile: the files under the cache directory, path -> value
    fres,       \* SpecFile: the last set / get / remove of the file cache
    hobs,       \* SpecHeaders: the callbacks builder registered on the reactor
    hchain,     \* SpecHeaders: the reactor's local chain, one header per height
    hprev,      \* SpecHeaders: the local chain before the last tick
    hlog,       \* SpecHeaders: the callbacks the last tick delivered, in order
    htick,      \* SpecHeaders: the reactor's tick: its step, the peer chain
                \* it adopts, the ancestor, the configured reorg limit
    services,   \* SpecPick: SprunedVOService.services, the secondary services
    primary,    \* SpecPick: SprunedVOService.primary
    pick        \* SpecPick: the last operation and what _pick_services gave

joinVars == <<jIn, jData, jOut, jpc>>

serviceVars == <<cache, hasCache, sres>>

callVars == <<cpool, cerrs, cres, cpc>>

poolVars == <<required, keepalive, ploop, cstasks, hung, peers>>

fileVars == <<files, fres>>

headerVars == <<hobs, hchain, hprev, hlog, htick>>

pickVars == <<services, primary, pick>>

vars == <<jIn, jData, jOut, jpc, cache, hasCache, sres, cpool, cerrs, cres,
         cpc, required, keepalive, ploop, cstasks, hung, peers, files,
         fres,
         hobs, hchain, hprev, hlog, htick, services, primary, pick>>

----------------------------------------------------------------------------
(* Python values                                                           *)

None == -1

\* bool(v) is False: None, 0 and the empty containers (encoded 0)
Falsy(v) == v = None \/ v = 0

Abs(n) == IF n < 0 THEN -n ELSE n

Range(s) == {s[i] : i \in DOMAIN s}

\* list.count
Count(s, v) == Cardinality({i \in DOMAIN s : s[i] = v})

----------------------------------------------------------------------------
(* SprunedVOService._join_data                                             *)

MAX_TIME_DIVERGENCE_TOLERANCE_BETWEEN_SERVICES == 10

min_sources == 3

\* Bound: the longest list of responses joined.
MaxSources == 3

NoDict == [k \in {} |-> None]

\* _dd of _get_key: the non-None values of key k over ALL of `data`
\* (the closure reads `data`, not its parameter `_data`), in list order.
NonNullValues(k, data) ==
    LET col == [i \in 1..Len(data) |-> data[i][k]]
        IsNotNone(v) == v # None
    IN  SelectSeq(col, IsNotNone)

\* The comparison _get_key asserts on a pair of neighbours.
PairAgrees(k, x, y) ==
    IF k = "time"
    THEN Abs(x - y) < MAX_TIME_DIVERGENCE_TOLERANCE_BETWEEN_SERVICES
    ELSE x = y

\* _get_key(_k, _data): for i, x in enumerate(_dd): if i < len(_dd) - 2
\* the pair (_dd[i], _dd[i+1]) is asserted; python's i is j - 1 here.
\* ok is FALSE when an assert fails; val is `_dd and _dd[0] or None`.
_get_key(k, data) ==
    LET dd == NonNullValues(k, data)
    IN  [ok  |-> \A j \in 1..Len(dd) :
                    (j - 1 < Len(dd) - 2) => PairAgrees(k, dd[j], dd[j + 1]),
         val |-> IF dd = <<>> \/ Falsy(dd[1]) THEN None ELSE dd[1]]

\* _join_data(data): exc is "AssertionError" when an assert fails, and
\* value is then the empty dict; otherwise value is the returned dict.
_join_data(data) ==
    IF Len(data) < min_sources
    THEN [exc |-> "AssertionError", value |-> NoDict]
    ELSE LET res == data[1]
             KeyPasses(k) ==
                 /\ _get_key(k, data).ok
                 /\ res[k] # None => res[k] = _get_key(k, data).val
         IN  IF \A k \in DOMAIN res : KeyPasses(k)
             THEN [exc   |-> "",
                   value |-> [k \in DOMAIN res |->
                                IF res[k] = None THEN _get_key(k, data).val
                                ELSE res[k]]]
             ELSE [exc |-> "AssertionError", value |-> NoDict]

\* What _join_data(data) leaves in the list it was handed: `res = data[0]`
\* is the first response itself, and `res[k] = _get_key(k, data[1:])`
\* writes into it.  A returning call leaves the returned dict there.  A
\* raising call has written the None keys that came before the failing key
\* in the order of the dict's keys; the model holds a dict without its key
\* order, so these are any of the None keys whose _get_key passes.
_join_data_leaves(data) ==
    IF Len(data) < min_sources
    THEN {data}
    ELSE LET res == data[1]
             Written(ks) ==
                 [data EXCEPT ![1] =
                     [k \in DOMAIN res |->
                        IF k \in ks THEN _get_key(k, data).val ELSE res[k]]]
             NoneKeys == {k \in DOMAIN res :
                            res[k] = None /\ _get_key(k, data).ok}
         IN  IF _join_data(data).exc = ""
             THEN {Written(NoneKeys)}
             ELSE {Written(ks) : ks \in SUBSET NoneKeys}

----------------------------------------------------------------------------
(* SpecJoin: _join_data on every list of MaxSources-1..MaxSources          *)
(* responses that differ in one key.                                       *)

JoinKeys == {"merkleroot", "time", "mediantime", "height"}

TimeValues == {1700000000, 1700000003, 1700000007, 1700000010, 1700000021}

\* The values a service may report for a key (None: it cannot serve it).
KeyValues(k) ==
    IF k \in {"time", "mediantime"} THEN TimeValues \cup {None}
    ELSE IF k = "height" THEN {None, 0, 7}
    ELSE {None, 1, 2}

\* A value every service agrees on, for the keys that are not varied.
AgreedValue(k) == IF k \in {"time", "mediantime"} THEN 1700000000 ELSE 1

\* The responses whose key k holds col[i] and whose other keys agree.
Responses(keys, k, col) ==
    [i \in 1..Len(col) |->
        [kk \in keys |-> IF kk = k THEN col[i] ELSE AgreedValue(kk)]]

JoinInputs ==
    UNION {UNION {{Responses(JoinKeys, k, col) : col \in [1..n -> KeyValues(k)]}
                  : k \in JoinKeys}
           : n \in (min_sources - 1)..MaxSources}

JoinIdle ==
    /\ jIn = <<>>
    /\ jData = <<>>
    /\ jOut = [exc |-> "", value |-> NoDict]
    /\ jpc = "idle"

ServiceIdle ==
    /\ cache = <<>>
    /\ hasCache = FALSE
    /\ sres = [method |-> ""]

CallIdle ==
    /\ cpool = <<>>
    /\ cerrs = 0
    /\ cres = [op |-> ""]
    /\ cpc = "idle"

PoolIdle ==
    /\ required = 0
    /\ keepalive = FALSE
    /\ ploop = 0
    /\ cstasks = <<>>
    /\ hung = FALSE
    /\ peers = <<>>

FileIdle ==
    /\ files = <<>>
    /\ fres = [op |-> ""]

HeadersIdle ==
    /\ hobs = <<>>
    /\ hchain = <<>>
    /\ hprev = <<>>
    /\ hlog = <<>>
    /\ htick = [pc |-> ""]

PickIdle ==
    /\ services = <<>>
    /\ primary = <<>>
    /\ pick = [op |-> ""]

InitJoin ==
    /\ jIn \in JoinInputs
    /\ jData = jIn
    /\ jOut = [exc |-> "", value |-> NoDict]
    /\ jpc = "input"
    /\ ServiceIdle
    /\ CallIdle
    /\ PoolIdle
    /\ FileIdle
    /\ HeadersIdle
    /\ PickIdle

JoinData ==
    /\ jpc = "input"
    /\ jOut' = _join_data(jData)
    /\ jData' \in _join_data_leaves(jData)
    /\ jpc' = "done"
    /\ UNCHANGED jIn
    /\ UNCHANGED <<serviceVars, callVars, poolVars, fileVars, headerVars, pickVars>>

NextJoin == JoinData

SpecJoin == InitJoin /\ [][NextJoin]_vars

----------------------------------------------------------------------------
(* The cache as SprunedVOService uses it.  FileCacheInterface keeps one    *)
(* file per entry, named after the namespace and the key; for the two      *)
(* namespaces and the hexadecimal keys of the service the file name        *)
(* determines <<namespace, key>>, so the cache is a map from those pairs.  *)

\* FileCacheInterface.get: the stored value, None when there is no file.
\* Every caller here only tests the result for truth.
CacheHit(c, namespace, key) ==
    /\ <<namespace, key>> \in DOMAIN c
    /\ c[<<namespace, key>>] # NoDict

\* FileCacheInterface.set(namespace, key, value)
CacheSet(c, namespace, key, value) ==
    [p \in DOMAIN c \cup {<<namespace, key>>} |->
        IF p = <<namespace, key>> THEN value ELSE c[p]]

----------------------------------------------------------------------------
(* SprunedVOService.getblock / getrawtransaction                           *)

\* maybe_cached(method): `wrapper` is decorated with functools.wraps
\* itself, so the name is bound to partial(update_wrapper, wrapped=wrapper).
\* Applied to the method it copies the wrapper's attributes onto the method
\* and returns the method: the body of `wrapper` (the cache lookup) is
\* never executed.
WrapperRuns == FALSE

\* Mutant of ConfirmedEnough: the threshold is off by one.
ConfirmedEnough_Mutant(block) == block["confirmations"] >= 3

\* line 86: block['confirmations'] > 3 (None > 3 is a TypeError)
ConfirmedEnough(block) == block["confirmations"] > 3

\* Mutant of BlockOfTxCached: the block's cache entry is not looked up.
BlockOfTxCached_Mutant(c, has, transaction) ==
    /\ has
    /\ ~Falsy(transaction["blockhash"])

\* lines 95-97: self.cache and transaction['blockhash'] and
\* self.cache.get('getblock', transaction['blockhash'])
BlockOfTxCached(c, has, transaction) ==
    /\ has
    /\ ~Falsy(transaction["blockhash"])
    /\ CacheHit(c, "getblock", transaction["blockhash"])

BlockHashes == {1, 2}

TxIds == {1}

BlockKeys == {"hash", "confirmations", "merkleroot"}

TxKeys == {"rawtx", "blockhash"}

\* What the services may answer for one key of a block or a transaction.
AnswerValues(k) ==
    IF k = "confirmations" THEN {None, 3, 4}
    ELSE IF k = "blockhash" THEN BlockHashes \cup {None}
    ELSE {1, 2}

\* The answers of n services to getblock(blockhash): they differ in one key.
BlockAnswers(blockhash, n) ==
    {[i \in 1..n |-> [kk \in BlockKeys |->
                        IF kk = "confirmations" THEN col[i]
                        ELSE IF kk = "hash" THEN blockhash ELSE 1]]
     : col \in [1..n -> AnswerValues("confirmations")]}
    \cup
    {[i \in 1..n |-> [kk \in BlockKeys |->
                        IF kk = "merkleroot" THEN col[i]
                        ELSE IF kk = "hash" THEN blockhash ELSE conf]]
     : col \in [1..n -> AnswerValues("merkleroot")], conf \in {3, 4}}

\* The answers of n services to getrawtransaction(txid).
TxAnswers(txid, n) ==
    {[i \in 1..n |-> [kk \in TxKeys |->
                        IF kk = "blockhash" THEN col[i] ELSE 10 + txid]]
     : col \in [1..n -> AnswerValues("blockhash")]}

\* getblock(blockhash): `picked` is what _pick_services() does (line 83),
\* res the answers of the services it returned, each asked once, and
\* joined what _join_data makes of them.
GetBlock(blockhash, picked, res) ==
    \E joined \in {_join_data(res)} :
        LET hit   == hasCache /\ CacheHit(cache, "getblock", blockhash)
            block == joined.value
        IN  IF WrapperRuns /\ hit
            THEN /\ sres' = [method |-> "getblock", key |-> blockhash, hit |-> hit,
                             upstream |-> 0, joined |-> NoDict, exc |-> "",
                             ret |-> cache[<<"getblock", blockhash>>], raw |-> None]
                 /\ UNCHANGED cache
            ELSE IF picked.exc # ""
            THEN /\ sres' = [method |-> "getblock", key |-> blockhash, hit |-> hit,
                             upstream |-> 0, joined |-> NoDict,
                             exc |-> picked.exc, ret |-> NoDict, raw |-> None]
                 /\ UNCHANGED cache
            ELSE /\ sres' = [method |-> "getblock", key |-> blockhash, hit |-> hit,
                             upstream |-> Len(res), joined |-> block,
                             exc |-> IF joined.exc # "" THEN joined.exc
                                     ELSE IF block["confirmations"] = None
                                          THEN "TypeError" ELSE "",
                             ret |-> IF joined.exc # ""
                                        \/ block["confirmations"] = None
                                     THEN NoDict ELSE block,
                             raw |-> None]
                 /\ cache' = IF /\ joined.exc = ""
                                /\ block["confirmations"] # None
                                /\ ConfirmedEnough(block)
                                /\ hasCache
                             THEN CacheSet(cache, "getblock", blockhash, block)
                             ELSE cache

\* getrawtransaction(txid, verbose): `picked` is what _pick_services()
\* does (line 92) and res the answers of the services it returned.
GetRawTransaction(txid, verbose, picked, res) ==
    \E joined \in {_join_data(res)} :
        LET hit == hasCache /\ CacheHit(cache, "getrawtransaction", txid)
            transaction == joined.value
        IN  IF WrapperRuns /\ hit
            THEN /\ sres' = [method |-> "getrawtransaction", key |-> txid,
                             hit |-> hit, upstream |-> 0, joined |-> NoDict,
                             exc |-> "",
                             ret |-> cache[<<"getrawtransaction", txid>>],
                             raw |-> None]
                 /\ UNCHANGED cache
            ELSE IF picked.exc # ""
            THEN /\ sres' = [method |-> "getrawtransaction", key |-> txid,
                             hit |-> hit, upstream |-> 0, joined |-> NoDict,
                             exc |-> picked.exc, ret |-> NoDict, raw |-> None]
                 /\ UNCHANGED cache
            ELSE /\ sres' = [method |-> "getrawtransaction", key |-> txid,
                             hit |-> hit, upstream |-> Len(res),
                             joined |-> transaction,
                             exc |-> IF joined.exc # "" THEN joined.exc
                                     ELSE IF verbose THEN "NotImplementedError"
                                     ELSE "",
                             ret |-> NoDict,
                             raw |-> IF joined.exc # "" \/ verbose THEN None
                                     ELSE transaction["rawtx"]]
                 /\ cache' = IF /\ joined.exc = ""
                                /\ BlockOfTxCached(cache, hasCache, transaction)
                             THEN CacheSet(cache, "getrawtransaction", txid,
                                           transaction)
                             ELSE cache

\* SprunedVOService._pick_services

\* line 71: max = 50
pick_max == 50

\* The lists of n distinct members of the set S, in every order.
DistinctLists(S, n) ==
    {f \in [1..n -> S] : \A i, j \in 1..n : f[i] = f[j] => i = j}

\* Mutant of _pick_services: the loop runs while the sum is <= min_sources.
_pick_services_OneMore(svcs, prim) ==
    LET need == min_sources + 1 - Len(prim)
    IN  IF need <= 0
        THEN {[exc |-> "", res |-> <<>>, value |-> prim]}
        ELSE IF svcs = <<>>
        THEN {[exc |-> "IndexError", res |-> <<>>, value |-> <<>>]}
        ELSE {[exc |-> "", res |-> r, value |-> r \o prim] :
                 r \in DistinctLists(Range(svcs), need)}
             \cup {[exc |-> "AssertionError", res |-> <<>>, value |-> <<>>]}

\* _pick_services(): while len(res) + len(self.primary) < min_sources a
\* random member of self.services is drawn and appended to res unless it is
\* there already; the result is res + self.primary.  random.choice raises
\* IndexError on an empty list.  `assert i < max` fails at the 50th
\* iteration: for certain when fewer distinct services are registered than
\* are needed (or 49 draws cannot suffice), possibly (a run of repeated
\* draws) when two or more are needed, never when the first draw suffices.
_pick_services(svcs, prim) ==
    LET need == min_sources - Len(prim)
        returns == {[exc |-> "", res |-> r, value |-> r \o prim] :
                      r \in DistinctLists(Range(svcs), need)}
        asserts == {[exc |-> "AssertionError", res |-> <<>>, value |-> <<>>]}
    IN  IF need <= 0
        THEN {[exc |-> "", res |-> <<>>, value |-> prim]}
        ELSE IF svcs = <<>>
        THEN {[exc |-> "IndexError", res |-> <<>>, value |-> <<>>]}
        ELSE IF need >= pick_max THEN asserts
        ELSE IF need = 1 THEN returns
        ELSE returns \cup asserts

ServiceOnly ==
    UNCHANGED <<joinVars, callVars, poolVars, fileVars, headerVars>>

\* What _pick_services() can do on the registered services: the exception
\* it raises, or the number of services it returns, which are then asked.
Picks ==
    {[exc |-> p.exc, asked |-> Len(p.value)] :
        p \in _pick_services(services, primary)}

\* getblock(blockhash): _pick_services() raises, or every service it
\* returned is asked once.
CallGetBlock ==
    \E blockhash \in BlockHashes :
        \E picked \in Picks :
            \E res \in (IF picked.exc # "" THEN {<<>>}
                        ELSE BlockAnswers(blockhash, picked.asked)) :
                /\ GetBlock(blockhash, picked, res)
                /\ UNCHANGED <<hasCache, pickVars>>
                /\ ServiceOnly

\* getrawtransaction(txid, verbose): _pick_services() raises, or every
\* service it returned is asked once.
CallGetRawTransaction ==
    \E txid \in TxIds, verbose \in BOOLEAN :
        \E picked \in Picks :
            \E res \in (IF picked.exc # "" THEN {<<>>}
                        ELSE TxAnswers(txid, picked.asked)) :
                /\ GetRawTransaction(txid, verbose, picked, res)
                /\ UNCHANGED <<hasCache, pickVars>>
                /\ ServiceOnly

\* The blocks getblock(blockhash) writes to a cache.
CachedBlocks(blockhash) ==
    {_join_data(res).value :
        res \in {r \in BlockAnswers(blockhash, min_sources) :
                    /\ _join_data(r).exc = ""
                    /\ _join_data(r).value["confirmations"] # None
                    /\ ConfirmedEnough(_join_data(r).value)}}

\* The transactions getrawtransaction(txid) writes to a cache.
CachedTxs(txid) ==
    {_join_data(res).value :
        res \in {r \in TxAnswers(txid, min_sources) :
                    /\ _join_data(r).exc = ""
                    /\ ~Falsy(_join_data(r).value["blockhash"])}}

\* The entries the service reads and writes.
ServiceEntries ==
    ({"getblock"} \X BlockHashes) \cup ({"getrawtransaction"} \X TxIds)

\* The values found under entry p.
EntryValues(p) ==
    IF p[1] = "getblock" THEN CachedBlocks(p[2]) ELSE CachedTxs(p[2])

\* The caches that hold some of the entries ps.
RECURSIVE CachesOver(_)
CachesOver(ps) ==
    IF ps = {} THEN {<<>>}
    ELSE LET p    == CHOOSE x \in ps : TRUE
             rest == CachesOver(ps \ {p})
         IN  rest \cup {CacheSet(c, p[1], p[2], v) :
                           c \in rest, v \in EntryValues(p)}

\* The caches add_cache may be handed: a directory holds the entries that
\* services wrote to it earlier and that were not removed since.
HandedCaches == CachesOver(ServiceEntries)

\* add_cache(cache): self.cache is the object handed over, with the entries
\* it holds; this may be the cache the service has already.
AddCache ==
    /\ hasCache' = TRUE
    /\ cache' \in HandedCaches \cup {cache}
    /\ UNCHANGED <<sres, pickVars>>
    /\ ServiceOnly

\* Bound: the services registered with the service, of both kinds.
MaxRegistered == 3

\* add_service(service), for a service that is not registered yet; the
\* secondary services are numbered in the order they are registered.
RegisterService ==
    /\ Len(services) + Len(primary) < MaxRegistered
    /\ services' = Append(services, Len(services) + 1)
    /\ UNCHANGED <<serviceVars, primary, pick>>
    /\ ServiceOnly

\* add_primary_service(service), for a service that is not registered yet;
\* the primary services are numbered from 11 in the order they are
\* registered.
RegisterPrimaryService ==
    /\ Len(services) + Len(primary) < MaxRegistered
    /\ primary' = Append(primary, 10 + Len(primary) + 1)
    /\ UNCHANGED <<serviceVars, services, pick>>
    /\ ServiceOnly

\* SprunedVOService(min_sources=3): self.cache = None, no service registered
InitService ==
    /\ cache = <<>>
    /\ hasCache = FALSE
    /\ sres = [method |-> ""]
    /\ JoinIdle
    /\ CallIdle
    /\ PoolIdle
    /\ FileIdle
    /\ HeadersIdle
    /\ PickIdle

NextService ==
    \/ RegisterService
    \/ RegisterPrimaryService
    \/ AddCache
    \/ CallGetBlock
    \/ CallGetRawTransaction

SpecService == InitService /\ [][NextService]_vars

----------------------------------------------------------------------------
(* SpecPick: add_service, add_primary_service and _pick_services           *)

\* Bound: the longest list of registered services of either kind.
MaxServices == 3

ServiceIds == {1, 2, 3}

PickOnly ==
    UNCHANGED <<joinVars, serviceVars, callVars, poolVars, fileVars,
                headerVars>>

\* add_service(service): appended, also when it is registered already.
AddService ==
    \E service \in ServiceIds :
        /\ Len(services) < MaxServices
        /\ services' = Append(services, service)
        /\ pick' = [op |-> "add_service"]
        /\ UNCHANGED primary
        /\ PickOnly

\* add_primary_service(service)
AddPrimaryService ==
    \E service \in ServiceIds :
        /\ Len(primary) < MaxServices
        /\ primary' = Append(primary, service)
        /\ pick' = [op |-> "add_primary_service"]
        /\ UNCHANGED services
        /\ PickOnly

PickServices ==
    \E out \in _pick_services(services, primary) :
        /\ pick' = [op |-> "_pick_services", exc |-> out.exc,
                    res |-> out.res, value |-> out.value]
        /\ UNCHANGED <<services, primary>>
        /\ PickOnly

\* SprunedVOService(min_sources=3)
InitPick ==
    /\ services = <<>>
    /\ primary = <<>>
    /\ pick = [op |-> ""]
    /\ JoinIdle
    /\ ServiceIdle
    /\ CallIdle
    /\ PoolIdle
    /\ FileIdle
    /\ HeadersIdle

NextPick == AddService \/ AddPrimaryService \/ PickServices

SpecPick == InitPick /\ [][NextPick]_vars

----------------------------------------------------------------------------
(* ElectrodConnectionPool.call                                             *)

\* ElectrodConnectionPool.__init__(connections=3)
required_connections == 3

\* Bound: the longest _connections list of SpecCall.
MaxPeers == 3

\* What a peer may answer to an RPC; 0 stands for an empty answer ([], '', 0).
RpcValues == {0, 1, 2}

\* established_connections: the peers of the list that are connected
established_connections(pool) == {i \in DOMAIN pool : pool[i].connected}

\* line 248: connection.connected and connection.score > 0
Usable(pool) == {i \in DOMAIN pool : pool[i].connected /\ pool[i].score > 0}

\* Mutant of _pick_connection: the score of the drawn peer is not looked at.
_pick_connection_Any(pool) ==
    {[exc |-> "", peer |-> i] : i \in established_connections(pool)}
    \cup (IF established_connections(pool) = {}
          THEN {[exc |-> "IndexError", peer |-> 0]}
          ELSE {})

\* _pick_connection(): a random established peer is drawn until one has a
\* positive score; 101 draws in a row without one raise NoPeersException,
\* which is certain when no established peer is usable and possible (a run
\* of unlucky draws) when some is not.  random.choice raises IndexError on
\* an empty list.
_pick_connection(pool) ==
    {[exc |-> "", peer |-> i] : i \in Usable(pool)}
    \cup (IF established_connections(pool) = {}
          THEN {[exc |-> "IndexError", peer |-> 0]}
          ELSE IF established_connections(pool) \ Usable(pool) # {}
               THEN {[exc |-> "NoPeersException", peer |-> 0]}
               ELSE {})

\* _pick_multiple_connections(howmany), howmany > 0: peers are picked until
\* howmany distinct ones are held.  A pick of a peer already held repeats
\* the loop without counting the attempt, so with fewer than howmany usable
\* peers the loop only ends when _pick_connection itself gives up: at once
\* when no peer is usable, otherwise after a run of 101 unlucky draws, for
\* which there is no bound on the number of iterations ("Unbounded").
_pick_multiple_connections(pool, howmany) ==
    LET picks == {p \in _pick_connection(pool) : p.exc = ""}
        fails == {[exc |-> p.exc, peers |-> {}] :
                    p \in {q \in _pick_connection(pool) : q.exc # ""}}
    IN  IF Cardinality(picks) >= howmany
        THEN {[exc |-> "", peers |-> ps] :
                ps \in {x \in SUBSET Usable(pool) : Cardinality(x) = howmany}}
             \cup fails
        ELSE IF picks = {} THEN fails
        ELSE fails \cup {[exc |-> "Unbounded", peers |-> {}]}

\* asyncio.gather is handed one generator instead of the coroutines.  Up to
\* Python 3.11 the generator is wrapped in a Task, which fails with
\* RuntimeError (bad yield) on the first coroutine the generator yields,
\* some iterations of the event loop after call awaited gather; from 3.12
\* on gather raises TypeError at once.  No rpc_call is ever awaited.
GatherAwaited == "RuntimeError"

GatherRaised == "TypeError"

\* One call: its arguments, the exception it raised ("" when it returned),
\* the peers it picked, `answers` (what the rpc_call of each picked peer
\* gives when awaited, in the order of `servers`), `responses` (the answers
\* the call collected), the value it returned, the peer it returned with
\* get_peer, and the peers for which on_error was scheduled.
CallResult(agreement, get_peer, exc, picked, responses, value, peer, onError) ==
    [op |-> "call", agreement |-> agreement, get_peer |-> get_peer,
     exc |-> exc, picked |-> picked, answers |-> <<>>,
     responses |-> responses, value |-> value, peer |-> peer,
     onError |-> onError]

\* rpc_call(method, *args): the answer of client.RPC (None when the server
\* answers null), or None after an exception or a timeout, in which case
\* on_error is scheduled for the peer (failed).
RpcOutcomes ==
    {[failed |-> FALSE, value |-> v] : v \in RpcValues \cup {None}}
    \cup {[failed |-> TRUE, value |-> None]}

\* A call that has picked its peers and awaits them (lines 313, 323).
Picked(agreement, get_peer, picked) ==
    [op |-> "pick", agreement |-> agreement, get_peer |-> get_peer,
     exc |-> "", picked |-> picked, answers |-> <<>>, responses |-> <<>>,
     value |-> None, peer |-> 0, onError |-> {}]

\* call(method, params, agreement, get_peer) on the pool `pool`, up to its
\* first await (lines 304-313, 322-323): the checks of the arguments and
\* the pick.  The result is the set of ways it can go: the call has raised
\* (op "call") or it awaits the peers it picked (op "pick").
call_pick(pool, agreement, get_peer) ==
    IF get_peer /\ agreement > 1
    THEN {CallResult(agreement, get_peer, "ValueError", {}, <<>>, None, 0, {})}
    ELSE IF agreement > required_connections
    THEN {CallResult(agreement, get_peer, "ValueError", {}, <<>>, None, 0, {})}
    ELSE IF agreement > Cardinality(established_connections(pool))
    THEN {CallResult(agreement, get_peer, "NoPeersException", {}, <<>>,
                     None, 0, {})}
    ELSE IF agreement > 1
    THEN UNION {IF servers.exc # ""
                THEN {CallResult(agreement, get_peer, servers.exc, {}, <<>>,
                                 None, 0, {})}
                ELSE {CallResult(agreement, get_peer, GatherRaised,
                                 servers.peers, <<>>, None, 0, {}),
                      Picked(agreement, get_peer, servers.peers)}
                : servers \in _pick_multiple_connections(pool, agreement)}
    ELSE {IF connection.exc # ""
          THEN CallResult(agreement, get_peer, connection.exc, {}, <<>>,
                          None, 0, {})
          ELSE Picked(agreement, get_peer, {connection.peer})
          : connection \in _pick_connection(pool)}

\* What the rpc_call of each of n picked peers does when it is awaited.
\* One peer (agreement 1) does any of RpcOutcomes.  Of several peers
\* (agreement > 1), whose rpc_calls the call never awaits, each answers one
\* of two non-empty values or fails.
PeerRpcs(n) ==
    IF n = 1 THEN [1..n -> RpcOutcomes]
    ELSE [1..n -> {rpc \in RpcOutcomes : rpc.failed \/ ~Falsy(rpc.value)}]

\* The answers of the rpc_calls `rpcs`.
AnswersOf(rpcs) == [i \in DOMAIN rpcs |-> rpcs[i].value]

\* The rest of the call once the awaited peers are through (lines 313-326);
\* `rpcs` is what the rpc_call of each picked peer does when awaited.  With
\* agreement 1 the one rpc_call is awaited (line 323).  With agreement > 1
\* gather fails before any rpc_call runs: nothing is collected, no on_error
\* is scheduled, and lines 316-321 (the missing-response check and
\* _handle_responses) are not reached.  The pool is not looked at again.
call_finish(pending, rpcs) ==
    LET connection == CHOOSE i \in pending.picked : TRUE
        rpc == rpcs[1]
    IN  [(IF pending.agreement > 1
          THEN CallResult(pending.agreement, pending.get_peer, GatherAwaited,
                          pending.picked, <<>>, None, 0, {})
          ELSE CallResult(pending.agreement, pending.get_peer,
                          IF Falsy(rpc.value)
                          THEN "ElectrodMissingResponseException" ELSE "",
                          pending.picked, <<rpc.value>>,
                          IF Falsy(rpc.value) THEN None ELSE rpc.value,
                          IF pending.get_peer /\ ~Falsy(rpc.value)
                          THEN connection ELSE 0,
                          IF rpc.failed THEN {connection} ELSE {}))
         EXCEPT !.answers = AnswersOf(rpcs)]

----------------------------------------------------------------------------
(* SpecCall: one call on bounded pools.  call does not change the pool;    *)
(* while it awaits its peers, their error events and their connections     *)
(* change it.                                                              *)

\* The scores the peers have when the call starts.
PeerScores == {-1, 0, 1, 10}

\* Bound: the on_error events of the peers while one call awaits.
MaxErrors == 2

PoolStates ==
    UNION {[1..n -> [connected : BOOLEAN, score : PeerScores]]
           : n \in 0..MaxPeers}

InitCall ==
    /\ cpool \in PoolStates
    /\ cerrs = 0
    /\ cres = [op |-> ""]
    /\ cpc = "ready"
    /\ JoinIdle
    /\ ServiceIdle
    /\ PoolIdle
    /\ FileIdle
    /\ HeadersIdle
    /\ PickIdle

CallOnly ==
    UNCHANGED <<joinVars, serviceVars, poolVars, fileVars, headerVars,
                pickVars>>

\* call(...) up to its first await, or to the exception that ends it.
Call ==
    \E agreement \in 1..(required_connections + 1), get_peer \in BOOLEAN :
        /\ cpc = "ready"
        /\ \E res \in call_pick(cpool, agreement, get_peer) :
               \E rpcs \in (IF res.exc = GatherRaised
                            THEN PeerRpcs(agreement) ELSE {<<>>}) :
                   cres' = [res EXCEPT !.answers = AnswersOf(rpcs)]
        /\ cpc' = IF cres'.op = "pick" THEN "awaiting" ELSE "done"
        /\ UNCHANGED <<cpool, cerrs>>
        /\ CallOnly

\* While the call awaits: one on_error of a peer, `self._score -= 1`.
PeerErrors ==
    \E i \in DOMAIN cpool :
        /\ cpc = "awaiting"
        /\ cerrs < MaxErrors
        /\ cpool' = [cpool EXCEPT ![i].score = @ - 1]
        /\ cerrs' = cerrs + 1
        /\ UNCHANGED <<cres, cpc>>
        /\ CallOnly

\* While the call awaits: a peer's connection is closed (disconnect, or the
\* server drops it).
PeerCloses ==
    \E i \in DOMAIN cpool :
        /\ cpc = "awaiting"
        /\ cpool[i].connected
        /\ cpool' = [cpool EXCEPT ![i].connected = FALSE]
        /\ UNCHANGED <<cerrs, cres, cpc>>
        /\ CallOnly

\* The awaited peers are through: the call returns or raises.
CallReturn ==
    /\ cpc = "awaiting"
    /\ \E rpcs \in PeerRpcs(Cardinality(cres.picked)) :
           cres' = call_finish(cres, rpcs)
    /\ cpc' = "done"
    /\ UNCHANGED <<cpool, cerrs>>
    /\ CallOnly

NextCall ==
    Call \/ PeerErrors \/ PeerCloses \/ CallReturn

SpecCall == InitCall /\ [][NextCall]_vars

----------------------------------------------------------------------------
(* SpecPool: the pool and its peers on the asyncio event loop.  Every      *)
(* coroutine runs until its next await; a task made with create_task runs  *)
(* later, so it is an action of its own, and the tasks interleave.         *)

\* The servers of the configuration (electrum_servers), by hostname.
electrum_servers == {1, 2}

\* Bound: the largest _required_connections.
MaxRequired == 2

\* Bound: what the event loop holds at a time beyond one loop of connect()
\* and one _connect_servers task: errors of peers being handled (on_error
\* tasks, on_peer_error tasks, pings in flight), further loops of connect()
\* and further _connect_servers tasks.
MaxPending == 1

\* Bound: the points the peers of the pool lose to failures beyond
\* start_score.
MaxDebt == 0

\* ElectrodConnection.__init__(start_score=10)
start_score == 10

\* line 89: self._score -= 4
connect_penalty == 4

\* A server without a peer in _connections.
NoPeer ==
    [st |-> "none", score |-> 0, sub |-> "off",
     errTasks |-> 0, handlerTasks |-> 0, pings |-> 0, discTasks |-> 0]

\* ElectrodConnection(...) as _connect_servers creates it, connect() pending.
NewPeer ==
    [st |-> "connecting", score |-> start_score, sub |-> "off",
     errTasks |-> 0, handlerTasks |-> 0, pings |-> 0, discTasks |-> 0]

\* [connection.hostname for connection in self.connections]
InPool == {h \in electrum_servers : peers[h].st # "none"}

\* ElectrodConnection.connected: bool(self.client.protocol)
Connected(h) == peers[h].st = "connected"

\* The errors of peer h being handled.
Pending(h) == peers[h].errTasks + peers[h].handlerTasks + peers[h].pings

\* The errors of the peers hs being handled.
RECURSIVE PendingOf(_)
PendingOf(hs) ==
    IF hs = {} THEN 0
    ELSE LET h == CHOOSE x \in hs : TRUE
         IN  Pending(h) + PendingOf(hs \ {h})

\* The points the peers hs have lost since they were created.
RECURSIVE LostBy(_)
LostBy(hs) ==
    IF hs = {} THEN 0
    ELSE LET h == CHOOSE x \in hs : TRUE
         IN  (IF peers[h].st = "none" THEN 0 ELSE start_score - peers[h].score)
             + LostBy(hs \ {h})

\* A further lost point is within the bounds.
WithinDebt == LostBy(electrum_servers) < start_score + MaxDebt

Extra(n) == IF n > 1 THEN n - 1 ELSE 0

\* What MaxPending counts.
InFlight == PendingOf(electrum_servers) + Extra(ploop) + Extra(Len(cstasks))

\* A further failure of peer h is within the bounds.
MayFail(h) == InFlight < MaxPending /\ WithinDebt

\* The pool as call and _pick_connection read it.
PoolList ==
    [h \in electrum_servers |-> [connected |-> Connected(h), score |-> peers[h].score]]

\* line 275: self._required_connections - len(self.established_connections)
Missings == required - Cardinality(established_connections(PoolList))

\* _pick_multiple_servers(howmany): servers without a peer in the pool are
\* picked until howmany distinct ones are held.  _pick_server gives up
\* (NoPeersException) after 101 draws of servers that are in the pool:
\* certain when every server is, possible when some are.  A pick of a
\* server already held repeats the loop without counting, and the list is
\* compared with howmany only after an append: when howmany is below 1 or
\* above the number of free servers the loop never returns a list, and it
\* ends only if _pick_server gives up ("Unbounded" otherwise; with more
\* than 101 free servers the attempt counter ends it).
_pick_multiple_servers(howmany) ==
    LET free  == electrum_servers \ InPool
        fails == IF InPool # {}
                 THEN {[exc |-> "NoPeersException", servers |-> {}]} ELSE {}
    IN  IF free = {} THEN fails
        ELSE IF howmany >= 1 /\ howmany <= Cardinality(free)
        THEN {[exc |-> "", servers |-> ss] :
                ss \in {x \in SUBSET free : Cardinality(x) = howmany}}
             \cup fails
        ELSE fails \cup {[exc |-> "Unbounded", servers |-> {}]}

SetPeer(h, r) == peers' = [peers EXCEPT ![h] = r]

\* _connect_servers(howmany): a peer is created for each picked server and
\* appended to _connections, its connect() scheduled.  The coroutine has no
\* await: when _pick_multiple_servers does not end, the event loop is held.
_connect_servers(howmany) ==
    \E picked \in _pick_multiple_servers(howmany) :
       /\ hung' = (picked.exc = "Unbounded")
       /\ peers' = [h \in electrum_servers |->
                      IF h \in picked.servers THEN NewPeer ELSE peers[h]]

\* ElectrodConnectionPool.connect() up to its first asyncio.sleep(10):
\* _keepalive is set, missings is computed and the task _connect_servers is
\* created.  Nothing keeps connect() from being started while a loop of an
\* earlier connect() is asleep: the loops then run side by side (a further
\* loop and a further task are within the bound).
PoolConnect ==
    /\ ~hung
    /\ ploop >= 1 => InFlight < MaxPending
    /\ cstasks # <<>> => InFlight < MaxPending
    /\ keepalive' = TRUE
    /\ ploop' = ploop + 1
    /\ cstasks' = Append(cstasks, Missings)
    /\ UNCHANGED <<required, hung, peers>>

\* Mutant of KeepaliveTick: the loop does not look at _keepalive.
KeepaliveTick_Mutant ==
    /\ ~hung
    /\ ploop > 0
    /\ Len(cstasks) < ploop
    /\ cstasks' = Append(cstasks, Missings)
    /\ UNCHANGED <<required, keepalive, ploop, hung, peers>>

\* A loop of connect() after asyncio.sleep(10): `while self._keepalive`,
\* then missings and the task _connect_servers, or the end of that loop.
\* The task the loop created before its sleep was ready 10 s ago and has
\* run, so fewer tasks are left than there are loops.
KeepaliveTick ==
    /\ ~hung
    /\ ploop > 0
    /\ Len(cstasks) < ploop
    /\ IF keepalive
       THEN /\ cstasks # <<>> => InFlight < MaxPending
            /\ cstasks' = Append(cstasks, Missings)
            /\ UNCHANGED ploop
       ELSE /\ ploop' = ploop - 1
            /\ UNCHANGED cstasks
    /\ UNCHANGED <<required, keepalive, hung, peers>>

\* The task _connect_servers(howmany) runs, with the howmany its loop
\* iteration computed; it does not look at _keepalive.
ConnectServers ==
    /\ ~hung
    /\ cstasks # <<>>
    /\ _connect_servers(Head(cstasks))
    /\ cstasks' = Tail(cstasks)
    /\ UNCHANGED <<required, keepalive, ploop>>

\* ElectrodConnectionPool.stop()
Stop ==
    /\ ~hung
    /\ keepalive
    /\ keepalive' = FALSE
    /\ UNCHANGED <<required, ploop, cstasks, hung, peers>>

\* The task instance.connect(), client.connect succeeds: on_connect, then
\* on_peer_connected schedules the subscription to the headers channel.
ConnectOk(h) ==
    /\ ~hung
    /\ peers[h].st = "connecting"
    /\ SetPeer(h, [peers[h] EXCEPT !.st = "connected", !.sub = "subscribing"])
    /\ UNCHANGED <<required, keepalive, ploop, cstasks, hung>>

\* The task instance.connect(), client.connect raises: the score is lowered
\* and on_error is scheduled; client.protocol was never set ("failed").
ConnectFail(h) ==
    /\ ~hung
    /\ peers[h].st = "connecting"
    /\ SetPeer(h, [peers[h] EXCEPT !.st = "failed",
                                   !.score = @ - connect_penalty,
                                   !.errTasks = @ + 1])
    /\ UNCHANGED <<required, keepalive, ploop, cstasks, hung>>

\* subscribe() resumes from `header = await future` with the first header
\* and schedules _poll_queue.  It reads no connection state: the header
\* came while the peer was connected, the peer may have been closed since.
SubscribeOk(h) ==
    /\ ~hung
    /\ peers[h].sub = "subscribing"
    /\ SetPeer(h, [peers[h] EXCEPT !.sub = "polling"])
    /\ UNCHANGED <<required, keepalive, ploop, cstasks, hung>>

\* subscribe() raises: on_error is scheduled.
SubscribeFail(h) ==
    /\ ~hung
    /\ peers[h].sub = "subscribing"
    /\ MayFail(h)
    /\ SetPeer(h, [peers[h] EXCEPT !.sub = "off", !.errTasks = @ + 1])
    /\ UNCHANGED <<required, keepalive, ploop, cstasks, hung>>

\* _poll_queue raises (queue.get() or header[0]): the score is lowered,
\* on_error is scheduled and the queue is polled no more.
PollFail(h) ==
    /\ ~hung
    /\ peers[h].sub = "polling"
    /\ MayFail(h)
    /\ SetPeer(h, [peers[h] EXCEPT !.sub = "off", !.score = @ - 1,
                                   !.errTasks = @ + 1])
    /\ UNCHANGED <<required, keepalive, ploop, cstasks, hung>>

\* A call(method, params, agreement=1) awaits the rpc_call of peer h, which
\* it picked when h was connected with a positive score; the rpc_call times
\* out or raises: it schedules on_error and returns None.  Since the pick
\* the peer's score may have dropped and its connection may have closed.
CallFails(h) ==
    /\ ~hung
    /\ 1 <= required
    /\ peers[h].st \in {"connected", "closed"}
    /\ MayFail(h)
    /\ SetPeer(h, [peers[h] EXCEPT !.errTasks = @ + 1])
    /\ UNCHANGED <<required, keepalive, ploop, cstasks, hung>>

\* Mutant of OnError: an error costs two points.
OnError_Mutant(h) ==
    /\ ~hung
    /\ peers[h].errTasks > 0
    /\ SetPeer(h, [peers[h] EXCEPT !.errTasks = @ - 1, !.score = @ - 2,
                                   !.handlerTasks = @ + 1])
    /\ UNCHANGED <<required, keepalive, ploop, cstasks, hung>>

\* The task on_error(error): the score is lowered and the pool's
\* on_peer_error callback is scheduled.
OnError(h) ==
    /\ ~hung
    /\ peers[h].errTasks > 0
    /\ SetPeer(h, [peers[h] EXCEPT !.errTasks = @ - 1, !.score = @ - 1,
                                   !.handlerTasks = @ + 1])
    /\ UNCHANGED <<required, keepalive, ploop, cstasks, hung>>

\* The task on_peer_error -> _handle_peer_error, up to `await peer.ping`:
\* nothing for a peer that is not connected; a disconnect is scheduled when
\* the score is 0 (`not peer.score`); in both other cases the ping is sent.
HandlePeerError(h) ==
    /\ ~hung
    /\ peers[h].handlerTasks > 0
    /\ IF ~Connected(h)
       THEN SetPeer(h, [peers[h] EXCEPT !.handlerTasks = @ - 1])
       ELSE SetPeer(h, [peers[h] EXCEPT
                         !.handlerTasks = @ - 1,
                         !.discTasks = IF peers[h].score = 0
                                       THEN @ + 1 ELSE @,
                         !.pings = @ + 1])
    /\ UNCHANGED <<required, keepalive, ploop, cstasks, hung>>

\* What peer.ping(timeout=2) gives _handle_peer_error.  rpc_call returns
\* None on every failure instead of raising, so `return time.time() - now`
\* is reached whether the server answered ("answered") or the RPC failed
\* ("failed", on_error scheduled by rpc_call): a latency, never None.  When
\* the 2 s pass, the task is cancelled inside rpc_call: where CancelledError
\* is an Exception (Python < 3.8) rpc_call swallows it like a failure;
\* otherwise async_timeout raises TimeoutError when the `async with` block
\* is left, outside the try of ping, and _handle_peer_error ends with that
\* exception ("raised").
PingOutcomes ==
    {[how |-> "answered", result |-> 1, onError |-> FALSE],
     [how |-> "failed",   result |-> 1, onError |-> TRUE],
     [how |-> "raised",   result |-> 1, onError |-> FALSE]}

\* _handle_peer_error after `await peer.ping(timeout=2)`: a disconnect is
\* scheduled when ping returned nothing.
PingDone(h) ==
    /\ ~hung
    /\ peers[h].pings > 0
    /\ \E ping \in PingOutcomes :
          /\ ping.how = "answered" => Connected(h)
          /\ ping.onError => WithinDebt
          /\ SetPeer(h, [peers[h] EXCEPT
                           !.pings = @ - 1,
                           !.errTasks = IF ping.onError THEN @ + 1 ELSE @,
                           !.discTasks = IF ping.how # "raised"
                                            /\ Falsy(ping.result)
                                         THEN @ + 1 ELSE @])
    /\ UNCHANGED <<required, keepalive, ploop, cstasks, hung>>

\* The task peer.disconnect(): client.close(), after which client.protocol
\* is None.
Disconnect(h) ==
    /\ ~hung
    /\ peers[h].discTasks > 0
    /\ SetPeer(h, [peers[h] EXCEPT !.discTasks = @ - 1,
                                   !.st = IF @ = "connected" THEN "closed"
                                          ELSE @])
    /\ UNCHANGED <<required, keepalive, ploop, cstasks, hung>>

\* The server closes the connection: the client drops its protocol.  The
\* pool registers no disconnect callback, the peer stays in _connections.
ConnectionLost(h) ==
    /\ ~hung
    /\ Connected(h)
    /\ SetPeer(h, [peers[h] EXCEPT !.st = "closed"])
    /\ UNCHANGED <<required, keepalive, ploop, cstasks, hung>>

\* ElectrodConnectionPool.__init__
InitPool ==
    /\ required \in 1..MaxRequired
    /\ keepalive = TRUE
    /\ ploop = 0
    /\ cstasks = <<>>
    /\ hung = FALSE
    /\ peers = [h \in electrum_servers |-> NoPeer]
    /\ JoinIdle
    /\ ServiceIdle
    /\ CallIdle
    /\ FileIdle
    /\ HeadersIdle
    /\ PickIdle

PoolOnly == UNCHANGED <<joinVars, serviceVars, callVars, fileVars, headerVars, pickVars>>

NextPool ==
    \/ (PoolConnect /\ PoolOnly)
    \/ (KeepaliveTick /\ PoolOnly)
    \/ (ConnectServers /\ PoolOnly)
    \/ (Stop /\ PoolOnly)
    \/ \E h \in electrum_servers : ConnectOk(h) /\ PoolOnly
    \/ \E h \in electrum_servers : ConnectFail(h) /\ PoolOnly
    \/ \E h \in electrum_servers : SubscribeOk(h) /\ PoolOnly
    \/ \E h \in electrum_servers : SubscribeFail(h) /\ PoolOnly
    \/ \E h \in electrum_servers : PollFail(h) /\ PoolOnly
    \/ \E h \in electrum_servers : CallFails(h) /\ PoolOnly
    \/ \E h \in electrum_servers : OnError(h) /\ PoolOnly
    \/ \E h \in electrum_servers : HandlePeerError(h) /\ PoolOnly
    \/ \E h \in electrum_servers : PingDone(h) /\ PoolOnly
    \/ \E h \in electrum_servers : Disconnect(h) /\ PoolOnly
    \/ \E h \in electrum_servers : ConnectionLost(h) /\ PoolOnly

SpecPool == InitPool /\ [][NextPool]_vars

----------------------------------------------------------------------------
(* FileCacheInterface: one pickle file per entry under the directory.      *)
(* Strings are sequences of characters.                                    *)

\* str.lstrip('0')
RECURSIVE lstrip0(_)
lstrip0(str) ==
    IF str # <<>> /\ Head(str) = "0" THEN lstrip0(Tail(str)) ELSE str

\* str[:2]
First2(str) == SubSeq(str, 1, IF Len(str) < 2 THEN Len(str) ELSE 2)

\* '.'.join(args)
RECURSIVE join(_)
join(args) ==
    IF args = <<>> THEN <<>>
    ELSE IF Len(args) = 1 THEN args[1]
    ELSE args[1] \o <<".">> \o join(Tail(args))

\* The file of an entry below self.directory:
\* a[1].lstrip('0')[:2] + '/' + '.'.join(a) + '.bin'
FilePath(a) == First2(lstrip0(a[2])) \o <<"/">> \o join(a) \o <<".bin">>

\* set(*a, value, ttl=ttl) on the files fs: `if ttl: raise
\* NotImplementedError`, else the value is pickled into the entry's file.
FileSet(fs, a, value, ttl) ==
    IF ~Falsy(ttl)
    THEN [exc |-> "NotImplementedError", files |-> fs]
    ELSE [exc |-> "",
          files |-> [f \in DOMAIN fs \cup {FilePath(a)} |->
                        IF f = FilePath(a) THEN value ELSE fs[f]]]

\* get(*a): the unpickled file, None when there is no such file.
FileGet(fs, a) ==
    IF FilePath(a) \in DOMAIN fs THEN fs[FilePath(a)] ELSE None

\* remove(*a): os.remove of the file; OSError when there is none.
FileRemove(fs, a) ==
    IF FilePath(a) \in DOMAIN fs
    THEN [exc |-> "", files |-> [f \in DOMAIN fs \ {FilePath(a)} |-> fs[f]]]
    ELSE [exc |-> "OSError", files |-> fs]

\* Bound: the number of files in the directory.
MaxFiles == 2

Namespaces == {<<"a">>, <<"a", ".">>}

CacheKeys ==
    {<<"b">>, <<"0", "b">>, <<"0", "0">>, <<".", ".">>, <<".", ".", ".">>}

CacheValues == {1, 2}

\* ttl arguments: none, zero, a minute.
TtlValues == {None, 0, 60}

Set ==
    \E namespace \in Namespaces, key \in CacheKeys, value \in CacheValues,
       ttl \in TtlValues :
        LET done == FileSet(files, <<namespace, key>>, value, ttl)
        IN  /\ Cardinality(DOMAIN done.files) <= MaxFiles
            /\ files' = done.files
            /\ fres' = [op |-> "set", namespace |-> namespace, key |-> key,
                        value |-> value, ttl |-> ttl, exc |-> done.exc,
                        ret |-> None]
            /\ UNCHANGED <<joinVars, serviceVars, callVars, poolVars,
                         headerVars, pickVars>>

Get ==
    \E namespace \in Namespaces, key \in CacheKeys :
        /\ fres' = [op |-> "get", namespace |-> namespace, key |-> key,
                    value |-> None, ttl |-> None, exc |-> "",
                    ret |-> FileGet(files, <<namespace, key>>)]
        /\ UNCHANGED <<files, joinVars, serviceVars, callVars, poolVars,
                     headerVars, pickVars>>

Remove ==
    \E namespace \in Namespaces, key \in CacheKeys :
        LET done == FileRemove(files, <<namespace, key>>)
        IN  /\ files' = done.files
            /\ fres' = [op |-> "remove", namespace |-> namespace,
                        key |-> key, value |-> None, ttl |-> None,
                        exc |-> done.exc, ret |-> None]
            /\ UNCHANGED <<joinVars, serviceVars, callVars, poolVars,
                         headerVars, pickVars>>

\* A file below self.directory: its path does not lead out through '../'.
InDirectory(f) == ~(Len(f) >= 3 /\ SubSeq(f, 1, 3) = <<".", ".", "/">>)

\* purge(): every file and every directory listed in self.directory is
\* deleted; a file that set wrote outside the directory stays.
FilePurge(fs) == [f \in {g \in DOMAIN fs : ~InDirectory(g)} |-> fs[f]]

Purge ==
    /\ files' = FilePurge(files)
    /\ fres' = [op |-> "purge", namespace |-> <<>>, key |-> <<>>,
                value |-> None, ttl |-> None, exc |-> "", ret |-> None]
    /\ UNCHANGED <<joinVars, serviceVars, callVars, poolVars, headerVars,
                   pickVars>>

\* FileCacheInterface(directory) on an empty directory.
InitFile ==
    /\ files = <<>>
    /\ fres = [op |-> ""]
    /\ JoinIdle
    /\ ServiceIdle
    /\ CallIdle
    /\ PoolIdle
    /\ HeadersIdle
    /\ PickIdle

NextFile == Set \/ Get \/ Remove \/ Purge

SpecFile == InitFile /\ [][NextFile]_vars

----------------------------------------------------------------------------
(* builder and the HeadersReactor (SpecHeaders)                            *)
(*                                                                         *)
(* builder.py creates the reactor and registers the mempool observer on    *)
(* it.  The reactor itself (spruned/daemon/tasks/headers_reactor.py) is    *)
(* not among the sources at hand: its tick, its reorg and its callbacks    *)
(* follow sections 4.3 and 5 of the specification.  A tick starts with the *)
(* chain the reactor selected among the validated answers of its peers;    *)
(* a reorg rolls the local chain back one header at a time and then        *)
(* appends the peer's headers one at a time, and every step delivers its   *)
(* callback to the registered callbacks before the next step.              *)
(*                                                                         *)
(* A chain is the sequence of its headers above the genesis block, the     *)
(* header of height h at index h; a header is named by the branch it is    *)
(* on, so two chains share a header at h iff they agree up to h.           *)

MaxHeight == 3

HeaderIds == {1, 2}

MempoolSizes == {0, 1}

RECURSIVE ChainsUpTo(_)
ChainsUpTo(n) ==
    IF n = 0 THEN {<<>>}
    ELSE LET shorter == ChainsUpTo(n - 1)
         IN  shorter \cup
             {Append(c, x) : c \in {d \in shorter : Len(d) = n - 1},
                             x \in HeaderIds}

HeaderChains == ChainsUpTo(MaxHeight)

\* The limits on the depth of a reorg that the reactor may be configured
\* with.
ReorgLimits == 1..MaxHeight

\* builder, lines 29-34: the reactor's callbacks after construction.
builder(mempool_size) ==
    IF ~Falsy(mempool_size) THEN <<"mempool_observer">> ELSE <<>>

\* The header of height h is on both chains.
OnBoth(local, other, h) ==
    /\ h <= Len(local)
    /\ h <= Len(other)
    /\ SubSeq(local, 1, h) = SubSeq(other, 1, h)

\* The reactor walks the peer's chain backwards from height h until it
\* finds a header of the local chain (0: the genesis block).
RECURSIVE WalkBack(_, _, _)
WalkBack(local, other, h) ==
    IF h = 0 \/ OnBoth(local, other, h) THEN h
    ELSE WalkBack(local, other, h - 1)

\* The height of the common ancestor of the local and the peer's chain.
CommonAncestor(local, other) == WalkBack(local, other, Len(other))

\* The peer's chain replaces the local one: it is longer, or as long,
\* another chain and heavier (more accumulated work).
Replaces(local, other, heavier) ==
    \/ Len(other) > Len(local)
    \/ Len(other) = Len(local) /\ other # local /\ heavier

\* What a tick does with the peer's chain: it keeps the local chain, it
\* refuses a reorg deeper than the limit, or it adopts the peer's chain.
on_tick(local, other, heavier, limit) ==
    IF ~Replaces(local, other, heavier) THEN "kept"
    ELSE IF Len(local) - CommonAncestor(local, other) > limit THEN "refused"
    ELSE "adopted"

\* Mutant of AfterRollback: the headers of the peer are applied as soon as
\* the tip is rolled back.
AfterRollback_Early(chain, a) == "apply"

\* The step after a rollback that left `chain`, in a reorg at ancestor a:
\* the next rollback while headers above the ancestor are left.
AfterRollback(chain, a) == IF Len(chain) > a THEN "rollback" ELSE "apply"

\* One callback goes to every registered callback, in registration order.
Fanout(kind, height, id, callbacks) ==
    [i \in DOMAIN callbacks |->
        [obs |-> callbacks[i], kind |-> kind, height |-> height, id |-> id]]

HeadersOnly ==
    UNCHANGED <<joinVars, serviceVars, callVars, poolVars, fileVars,
                pickVars>>

\* A tick begins: `other` is the validated chain selected among the peers'
\* answers, `heavier` tells whether it holds more work than the local one.
HeaderTick ==
    \E other \in HeaderChains, heavier \in BOOLEAN :
        LET a    == CommonAncestor(hchain, other)
            does == on_tick(hchain, other, heavier, htick.limit)
        IN  /\ htick.pc = "idle"
            /\ hprev' = hchain
            /\ hlog' = <<>>
            /\ htick' = [pc |-> IF does # "adopted" THEN "idle"
                                ELSE IF Len(hchain) > a THEN "rollback"
                                ELSE "apply",
                         does |-> does, peer |-> other, a |-> a,
                         limit |-> htick.limit]
            /\ UNCHANGED <<hobs, hchain>>
            /\ HeadersOnly

\* The local tip is rolled back and its rollback callback delivered.
Rollback ==
    /\ htick.pc = "rollback"
    /\ hchain' = SubSeq(hchain, 1, Len(hchain) - 1)
    /\ hlog' = hlog \o Fanout("rollback", Len(hchain), hchain[Len(hchain)],
                              hobs)
    /\ htick' = [htick EXCEPT !.pc = AfterRollback(hchain', htick.a)]
    /\ UNCHANGED <<hobs, hprev>>
    /\ HeadersOnly

\* The next header of the peer's chain is appended and its on_new_header
\* callback delivered; the tick ends with the peer's tip.
Apply ==
    /\ htick.pc = "apply"
    /\ Len(hchain) < Len(htick.peer)
    /\ hchain' = Append(hchain, htick.peer[Len(hchain) + 1])
    /\ hlog' = hlog \o Fanout("apply", Len(hchain) + 1,
                              htick.peer[Len(hchain) + 1], hobs)
    /\ htick' = [htick EXCEPT !.pc = IF Len(hchain') < Len(htick.peer)
                                     THEN "apply" ELSE "idle"]
    /\ UNCHANGED <<hobs, hprev>>
    /\ HeadersOnly

InitHeaders ==
    /\ \E mempool_size \in MempoolSizes : hobs = builder(mempool_size)
    /\ hchain = <<>>
    /\ hprev = <<>>
    /\ hlog = <<>>
    /\ \E limit \in ReorgLimits :
          htick = [pc |-> "idle", does |-> "", peer |-> <<>>, a |-> 0,
                   limit |-> limit]
    /\ JoinIdle
    /\ ServiceIdle
    /\ CallIdle
    /\ PoolIdle
    /\ FileIdle
    /\ PickIdle

NextHeaders == HeaderTick \/ Rollback \/ Apply

SpecHeaders == InitHeaders /\ [][NextHeaders]_vars

----------------------------------------------------------------------------
(* Properties of call (SpecCall)                                           *)

\* The responses that came back: the non-None entries.
CameBack(responses) ==
    Cardinality({i \in DOMAIN responses : responses[i] # None})

\* The number of picked peers that report v, a non-empty response.
Reported(answers, v) == IF Falsy(v) THEN 0 ELSE Count(answers, v)

\* Some response is reported by at least k of the picked peers.
QuorumAnswer(answers, k) ==
    \E i \in DOMAIN answers : Reported(answers, answers[i]) >= k

C3_MissingIffFewerResponses ==
    (cres.op = "call" /\ cres.picked # {}) =>
        /\ cres.exc = "ElectrodMissingResponseException"
               <=> CameBack(cres.responses) < cres.agreement
        /\ (cres.agreement = 1 /\ CameBack(cres.responses) = 1) =>
               (cres.exc = "" /\ cres.value = cres.responses[1])

----------------------------------------------------------------------------
(* Properties of _join_data (SpecJoin)                                     *)

TimeLikeKeys == {"time", "mediantime"}

\* Two responses hold different non-None values for key k.
Disagree(k, data) ==
    \E i, j \in DOMAIN data :
        /\ data[i][k] # None
        /\ data[j][k] # None
        /\ data[i][k] # data[j][k]

\* Every pair of non-None values of key k differs by at most the tolerance.
WithinTolerance(k, data) ==
    \A i, j \in DOMAIN data :
        (data[i][k] # None /\ data[j][k] # None)
            => Abs(data[i][k] - data[j][k])
                   <= MAX_TIME_DIVERGENCE_TOLERANCE_BETWEEN_SERVICES

\* The first non-None value of key k in response order, None if there is none.
FirstNonNull(k, data) ==
    IF NonNullValues(k, data) = <<>> THEN None ELSE NonNullValues(k, data)[1]

\* Only a time-like key differs between the responses.
OnlyTimeVaries(data) ==
    \A k \in JoinKeys \ TimeLikeKeys :
        \A i \in DOMAIN data : data[i][k] = AgreedValue(k)

\* C4: _join_data raises a divergence error whenever two responses hold
\* different non-null values for a key that is not time-like, wherever the
\* disagreeing responses stand in the list.
C4_DivergenceRaises ==
    jpc = "done" =>
        \A k \in JoinKeys \ TimeLikeKeys :
            Disagree(k, jIn) => jOut.exc = "AssertionError"

\* C5: with at least min_sources responses that agree on every other key,
\* _join_data accepts exactly when every pair of non-null values of the
\* time-like keys (time, mediantime) differs by at most 10 seconds.
C5_TimeTolerance ==
    (jpc = "done" /\ Len(jIn) >= min_sources /\ OnlyTimeVaries(jIn)) =>
        (jOut.exc = "" <=> \A k \in TimeLikeKeys : WithinTolerance(k, jIn))

\* C6: when _join_data succeeds, every key of the result holds the first
\* non-null value of that key in response order (null if there is none).
C6_FirstNonNull ==
    (jpc = "done" /\ jOut.exc = "") =>
        \A k \in JoinKeys : jOut.value[k] = FirstNonNull(k, jIn)

----------------------------------------------------------------------------
(* Properties of getblock / getrawtransaction (SpecService)                *)

\* The step is a getblock or a getrawtransaction call: the cache is not
\* handed over and no service is registered in it.
ServiceCall ==
    /\ ~AddCache
    /\ UNCHANGED <<services, primary>>

\* C7: with a cache configured, a getblock call writes the joined block
\* under (getblock, blockhash) exactly when the join succeeded and the
\* joined block has confirmations > 3; otherwise the cache is unchanged,
\* and with confirmations <= 3 the joined block is returned.
C7_WriteIffConfirmed ==
    [][(sres'.method = "getblock" /\ hasCache /\ ServiceCall) =>
          /\ cache' = IF /\ sres'.joined # NoDict
                         /\ sres'.joined["confirmations"] > 3
                      THEN CacheSet(cache, "getblock", sres'.key, sres'.joined)
                      ELSE cache
          /\ (/\ sres'.joined # NoDict
              /\ sres'.joined["confirmations"] # None
              /\ sres'.joined["confirmations"] <= 3)
                 => (sres'.exc = "" /\ sres'.ret = sres'.joined)]_vars

\* A getblock call joined a block with confirmations > 3 and the cache
\* holds it under (getblock, blockhash).
C7_Witness ==
    /\ sres.method = "getblock"
    /\ hasCache
    /\ sres.exc = ""
    /\ sres.joined["confirmations"] > 3
    /\ CacheHit(cache, "getblock", sres.key)
    /\ cache[<<"getblock", sres.key>>] = sres.ret

\* C8: a getblock / getrawtransaction call that finds its entry in the
\* cache calls no upstream service.
C8_ReadThrough ==
    (sres.method # "" /\ sres.hit) => sres.upstream = 0

\* C9: with a cache configured, a getrawtransaction call writes the joined
\* transaction under (getrawtransaction, txid) exactly when the join
\* succeeded, the transaction has a blockhash and the cache holds
\* (getblock, blockhash) when the call is made; and no getblock or
\* getrawtransaction call removes an entry or leaves a transaction in the
\* cache that was not there before and whose block was not cached before.
C9_TxCachedAfterBlock ==
    /\ [][ServiceCall =>
            /\ \A p \in DOMAIN cache :
                  CacheHit(cache, p[1], p[2]) => CacheHit(cache', p[1], p[2])
            /\ \A txid \in TxIds :
                  (/\ CacheHit(cache', "getrawtransaction", txid)
                   /\ \/ ~CacheHit(cache, "getrawtransaction", txid)
                      \/ cache'[<<"getrawtransaction", txid>>]
                            # cache[<<"getrawtransaction", txid>>])
                  => CacheHit(cache, "getblock",
                              cache'[<<"getrawtransaction", txid>>]["blockhash"])]_vars
    /\ [][(sres'.method = "getrawtransaction" /\ hasCache /\ ServiceCall)
            =>
            cache' = IF /\ sres'.joined # NoDict
                        /\ ~Falsy(sres'.joined["blockhash"])
                        /\ CacheHit(cache, "getblock",
                                    sres'.joined["blockhash"])
                     THEN CacheSet(cache, "getrawtransaction", sres'.key,
                                   sres'.joined)
                     ELSE cache]_vars

\* A getrawtransaction call cached its transaction, whose block is cached.
C9_Witness ==
    /\ sres.method = "getrawtransaction"
    /\ hasCache
    /\ sres.joined # NoDict
    /\ CacheHit(cache, "getrawtransaction", sres.key)
    /\ cache[<<"getrawtransaction", sres.key>>] = sres.joined
    /\ CacheHit(cache, "getblock", sres.joined["blockhash"])


----------------------------------------------------------------------------
(* Properties of the pool and its peers (SpecPool)                          *)

\* The removal of peer h is under way: a disconnect of it is scheduled, or
\* an error of it is still being handled, which may yet schedule one.
Removing(h) == peers[h].discTasks > 0 \/ Pending(h) > 0

\* C10: in every reachable state, every peer held by the pool that is
\* connected has a score above 0, or the pool is in the process of removing
\* it (the error handler has scheduled its disconnect, or is still at work
\* on an error of it).
C10_ConnectedScorePositive ==
    \A h \in InPool : Connected(h) => (peers[h].score > 0 \/ Removing(h))

\* C11: in every reachable state the score of every peer is in
\* 0..start_score: no sequence of connect, RPC, subscription, queue-poll and
\* ping failures brings it below 0.
C11_ScoreInRange ==
    \A h \in InPool : peers[h].score \in 0..start_score

\* C12: every peer that _pick_connection or _pick_multiple_connections
\* hands to call is connected and has a score above 0 when it is picked, the
\* peers picked for an agreement k are k different peers, and a peer that is
\* disconnected is not picked.
C12_PickedAreUsable ==
    [][(cpc = "ready" /\ cres'.op \in {"pick", "call"} /\ cres'.picked # {})
         =>
          /\ \A i \in cres'.picked :
                /\ i \in DOMAIN cpool
                /\ cpool[i].connected
                /\ cpool[i].score > 0
          /\ Cardinality(cres'.picked) = cres'.agreement]_vars

\* Peers were picked from a pool that also holds a connected peer without
\* score and a disconnected peer.
C12_Witness ==
    /\ cres.op = "pick"
    /\ cpc = "awaiting"
    /\ cres.picked # {}
    /\ \E j \in DOMAIN cpool : cpool[j].connected /\ cpool[j].score <= 0
    /\ \E j \in DOMAIN cpool : ~cpool[j].connected

\* C13: in every reachable state the pool holds at most
\* _required_connections peers in its connection list.
C13_PoolWithinRequired ==
    Cardinality(InPool) <= required

----------------------------------------------------------------------------
(* SpecPoolFair: the pool without failing connects, on an event loop that  *)
(* runs what it holds: the loop of connect() wakes up from every sleep, the *)
(* tasks made with create_task run (_connect_servers, on_error, the error  *)
(* handler, disconnect) and a ping ends within its timeout.  Nothing makes *)
(* a server accept a connection or send a header; connect() and stop() are *)
(* called or not.                                                          *)

NextPoolFair ==
    \/ (PoolConnect /\ PoolOnly)
    \/ (KeepaliveTick /\ PoolOnly)
    \/ (ConnectServers /\ PoolOnly)
    \/ (Stop /\ PoolOnly)
    \/ \E h \in electrum_servers : ConnectOk(h) /\ PoolOnly
    \/ \E h \in electrum_servers : SubscribeOk(h) /\ PoolOnly
    \/ \E h \in electrum_servers : SubscribeFail(h) /\ PoolOnly
    \/ \E h \in electrum_servers : PollFail(h) /\ PoolOnly
    \/ \E h \in electrum_servers : CallFails(h) /\ PoolOnly
    \/ \E h \in electrum_servers : OnError(h) /\ PoolOnly
    \/ \E h \in electrum_servers : HandlePeerError(h) /\ PoolOnly
    \/ \E h \in electrum_servers : PingDone(h) /\ PoolOnly
    \/ \E h \in electrum_servers : Disconnect(h) /\ PoolOnly
    \/ \E h \in electrum_servers : ConnectionLost(h) /\ PoolOnly

PoolFairness ==
    /\ WF_vars(KeepaliveTick /\ PoolOnly)
    /\ WF_vars(ConnectServers /\ PoolOnly)
    /\ \A h \in electrum_servers :
          /\ WF_vars(OnError(h) /\ PoolOnly)
          /\ WF_vars(HandlePeerError(h) /\ PoolOnly)
          /\ WF_vars(PingDone(h) /\ PoolOnly)
          /\ WF_vars(Disconnect(h) /\ PoolOnly)

SpecPoolFair == InitPool /\ [][NextPoolFair]_vars /\ PoolFairness

\* The usable peers of the pool: connected, with a score above 0.
UsableCount == Cardinality(Usable(PoolList))

\* C14: dead peers are replaced: while the pool is running and not stopped,
\* servers accept connections (every connect left pending succeeds) and the
\* random draws of _pick_server do not miss a free server for ever, a pool
\* with fewer usable peers than _required_connections eventually has that
\* many again (or is stopped, or its event loop is stuck).
C14_DeadPeersReplaced ==
    (/\ \A h \in electrum_servers : WF_vars(ConnectOk(h) /\ PoolOnly)
     /\ SF_vars(ConnectServers /\ InPool' # InPool /\ PoolOnly))
    => ((keepalive /\ ploop > 0 /\ UsableCount < required)
           ~> (UsableCount >= required \/ ~keepalive \/ hung))

\* A step in which an RPC of peer h fails (in call, or in the ping of the
\* error handler): rpc_call schedules on_error; the subscription is not
\* touched and the peer is not one whose connect is still in flight.
RpcFailed(h) ==
    /\ peers'[h].errTasks > peers[h].errTasks
    /\ peers'[h].sub = peers[h].sub
    /\ peers[h].st # "connecting"

\* C15: an RPC that times out or fails lowers the peer's score by exactly 1
\* and fires the error event: the failure schedules on_error and leaves
\* score and connection as they are, and every on_error that runs lowers the
\* score by 1, schedules the pool's handler and leaves the connection open;
\* a disconnect is scheduled only for a peer whose score is 0.
C15_RpcFailureCostsOne ==
    [][\A h \in electrum_servers :
          /\ RpcFailed(h) =>
                /\ peers'[h].score = peers[h].score
                /\ peers'[h].st = peers[h].st
                /\ peers'[h].discTasks <= peers[h].discTasks
          /\ peers'[h].errTasks < peers[h].errTasks =>
                /\ peers'[h].score = peers[h].score - 1
                /\ peers'[h].handlerTasks = peers[h].handlerTasks + 1
                /\ peers'[h].st = peers[h].st
          /\ peers'[h].discTasks > peers[h].discTasks =>
                peers[h].score = 0]_vars

\* A peer whose subscription is intact has lost two points to failed RPCs,
\* has no error left to handle, is connected and can be picked.
C15_Witness ==
    \E h \in InPool :
        /\ peers[h].score = start_score - 2
        /\ peers[h].sub = "polling"
        /\ Pending(h) = 0
        /\ Connected(h)
        /\ [exc |-> "", peer |-> h] \in _pick_connection(PoolList)

\* C16: after stop() the loop of connect() ends at its next sleep boundary:
\* while a loop sleeps with _keepalive off and connect() is not started
\* again, the flag stays off and no _connect_servers task is created; the
\* step a loop takes is the one that ends it, which it can take as soon as
\* the event loop has run the task of the iteration before, and which
\* touches no peer; once no loop is left no task is left and no peer is
\* added to the pool.  stop() itself leaves every peer and every task in
\* flight as it is.
C16_StopEndsLoop ==
    /\ [][(~keepalive /\ ploop > 0 /\ ploop' <= ploop) =>
             /\ ~keepalive'
             /\ Len(cstasks') <= Len(cstasks)
             /\ ploop' < ploop => peers' = peers]_vars
    /\ []((~keepalive /\ ploop > 0 /\ Len(cstasks) < ploop /\ ~hung) =>
             ENABLED (KeepaliveTick /\ ploop' = ploop - 1))
    /\ [](ploop = 0 => cstasks = <<>>)
    /\ [][(ploop = 0 /\ ploop' = 0) => InPool' = InPool]_vars
    /\ [][(keepalive /\ ~keepalive') =>
             peers' = peers /\ cstasks' = cstasks]_vars

\* The same under fair scheduling (SpecPoolFair): the loops of a stopped
\* pool end, unless connect() is started again or a task of an iteration
\* before holds the event loop.
StoppedLoopEnds ==
    (~keepalive /\ ploop > 0) ~> (ploop = 0 \/ keepalive \/ hung)

\* The loop has ended after stop() while a peer's connect and another
\* peer's ping were still in flight.
C16_Witness ==
    /\ ploop = 0
    /\ ~keepalive
    /\ \E h \in InPool : peers[h].st = "connecting"
    /\ \E h \in InPool : peers[h].pings > 0

\* C19: selection always finishes after a bounded number of attempts: the
\* server picking of the keepalive loop, _pick_multiple_servers(n), returns
\* the servers or raises NoPeersException for every pool state and every n,
\* n <= 0 included, and never leaves the event loop inside its loop.
C19_SelectionEnds == ~hung

\* The same for _pick_multiple_connections(k) in call (SpecCall): no call
\* stays in the selection loop.
PickManyEnds == cres.op = "call" => cres.exc # "Unbounded"

\* The steps of _handle_peer_error for the peer of h: its first part, up to
\* the ping, and its second part, after a ping whose RPC failed (no answer:
\* rpc_call scheduled on_error).
HandlerRuns(h) == peers'[h].handlerTasks < peers[h].handlerTasks

PingUnanswered(h) ==
    /\ peers'[h].pings < peers[h].pings
    /\ peers'[h].errTasks > peers[h].errTasks

\* C20: the peer-error policy.  When the pool handles an error event of a
\* connected peer it schedules a disconnect and sends no ping if the score
\* is 0, and otherwise sends the ping and schedules no disconnect; when the
\* ping gets no answer, the disconnect is scheduled.
C20_PeerErrorPolicy ==
    [][\A h \in electrum_servers :
          /\ (HandlerRuns(h) /\ Connected(h)) =>
                IF peers[h].score = 0
                THEN /\ peers'[h].discTasks = peers[h].discTasks + 1
                     /\ peers'[h].pings = peers[h].pings
                ELSE /\ peers'[h].discTasks = peers[h].discTasks
                     /\ peers'[h].pings = peers[h].pings + 1
          /\ PingUnanswered(h) =>
                peers'[h].discTasks = peers[h].discTasks + 1]_vars

\* Its parts, one at a time.
NoPingAtScoreZero ==
    [][\A h \in electrum_servers :
          (HandlerRuns(h) /\ Connected(h) /\ peers[h].score = 0) =>
              peers'[h].pings = peers[h].pings]_vars

UnansweredPingDisconnects ==
    [][\A h \in electrum_servers :
          PingUnanswered(h) =>
              peers'[h].discTasks = peers[h].discTasks + 1]_vars

HandlerAtPositiveScore ==
    [][\A h \in electrum_servers :
          (HandlerRuns(h) /\ Connected(h) /\ peers[h].score > 0) =>
              /\ peers'[h].discTasks = peers[h].discTasks
              /\ peers'[h].pings = peers[h].pings + 1]_vars

\* The steps of the task instance.connect() for the peer of h.
ConnectFails(h) == peers[h].st = "connecting" /\ peers'[h].st = "failed"

ConnectSucceeds(h) == peers[h].st = "connecting" /\ peers'[h].st = "connected"

\* C21: a connect() that fails lowers the score by exactly 4, from 10 to 6,
\* fires the error event and leaves the peer not connected: a peer whose
\* connect failed has score 6.  A connect() that succeeds leaves the score
\* as it is and fires the connect event (the pool's on_peer_connected
\* starts the subscription).
C21_ConnectOutcome ==
    /\ [](\A h \in electrum_servers :
            peers[h].st = "failed" =>
                /\ peers[h].score = start_score - connect_penalty
                /\ ~Connected(h))
    /\ [][\A h \in electrum_servers :
            /\ ConnectFails(h) =>
                  peers'[h].errTasks = peers[h].errTasks + 1
            /\ ConnectSucceeds(h) =>
                  /\ peers'[h].score = peers[h].score
                  /\ peers'[h].sub = "subscribing"]_vars

\* Its parts: what the task connect() does by itself, and the score of the
\* peer once its tasks are done.
ConnectStep ==
    [][\A h \in electrum_servers :
          /\ ConnectFails(h) =>
                /\ peers'[h].score = peers[h].score - connect_penalty
                /\ peers'[h].errTasks = peers[h].errTasks + 1
          /\ ConnectSucceeds(h) =>
                /\ peers'[h].score = peers[h].score
                /\ peers'[h].sub = "subscribing"]_vars

FailedPeerEndsAtFive ==
    \A h \in electrum_servers :
        (peers[h].st = "failed" /\ Pending(h) = 0) =>
            peers[h].score = start_score - connect_penalty - 1

----------------------------------------------------------------------------
(* Properties of FileCacheInterface (SpecFile)                             *)

\* C17: a set called with a ttl argument raises the not-supported error and
\* writes nothing: no file changes, so every get returns what it returned
\* before.
C17_TtlRejected ==
    [][(fres'.op = "set" /\ fres'.ttl # None) =>
          /\ fres'.exc = "NotImplementedError"
          /\ files' = files]_vars

\* The (namespace, key) pairs of the cache.
CachePairs == Namespaces \X CacheKeys

\* The pair the operation that led to the next state was about.
LastPair == <<fres'.namespace, fres'.key>>

\* C23: the round trip of the file cache.  No pair is there at the start;
\* after set(namespace, key, value), get(namespace, key) gives value; after
\* remove(namespace, key) it gives None; and a set or remove of one pair
\* leaves what get gives for every other pair as it was, so each value
\* stays until the next set or remove of its own pair (purge, which empties
\* the cache, aside).
C23_RoundTrip ==
    /\ \A q \in CachePairs : FileGet(files, q) = None
    /\ [](fres.op = "get" =>
            fres.ret = FileGet(files, <<fres.namespace, fres.key>>))
    /\ [][/\ (fres'.op = "set" /\ fres'.exc = "") =>
               FileGet(files', LastPair) = fres'.value
          /\ fres'.op = "remove" => FileGet(files', LastPair) = None
          /\ fres'.op \in {"set", "get", "remove"} =>
               \A q \in CachePairs \ {LastPair} :
                   FileGet(files', q) = FileGet(files, q)]_vars

\* Its parts: the round trip of the pair itself, and the other pairs, all
\* of them or only those with a file of their own.
OwnPairRoundTrip ==
    [][/\ (fres'.op = "set" /\ fres'.exc = "") =>
             FileGet(files', LastPair) = fres'.value
       /\ fres'.op = "remove" => FileGet(files', LastPair) = None]_vars

OtherFilesUntouched ==
    [][fres'.op \in {"set", "get", "remove"} =>
          \A q \in CachePairs :
              FilePath(q) # FilePath(LastPair) =>
                  FileGet(files', q) = FileGet(files, q)]_vars

\* Two pairs that share their file.
SharedFile ==
    \E p, q \in CachePairs : p # q /\ FilePath(p) = FilePath(q)

----------------------------------------------------------------------------
(* Properties of the HeadersReactor (SpecHeaders)                          *)

Observers == {hobs[i] : i \in DOMAIN hobs}

DeliveredTo(o) == SelectSeq(hlog, LAMBDA e : e.obs = o)

\* The heights of the callbacks of kind `kind` in the list `mine`.
HeightsOf(mine, kind) ==
    {mine[i].height : i \in {j \in DOMAIN mine : mine[j].kind = kind}}

\* The heights of the chain `chain` whose header is not on the chain `on`.
OffChain(chain, on) ==
    {h \in 1..Len(chain) :
        h > Len(on) \/ SubSeq(chain, 1, h) # SubSeq(on, 1, h)}

\* C18: each registered observer receives the callbacks of a tick in chain
\* order, without gap or reordering.  With the chain before the tick and
\* the peer's chain it adopts: rollbacks are delivered for the old headers
\* that are not on the peer's chain, from the old tip downwards one height
\* at a time, and no apply is delivered before the rollback of the lowest
\* of them (the height above the common ancestor); the applies follow from
\* that height, or from the height above the old tip when nothing is rolled
\* back, upwards one height at a time, and no rollback follows an apply;
\* a finished tick has delivered the rollback of every old header off the
\* peer's chain and the apply of every header of the peer off the old
\* chain, up to its tip.
C18_CallbacksInChainOrder ==
    \A o \in Observers :
        LET mine == DeliveredTo(o)
            back == OffChain(hprev, htick.peer)
            forth == OffChain(htick.peer, hprev)
        IN  /\ \A i \in DOMAIN mine :
                  IF mine[i].kind = "rollback"
                  THEN /\ mine[i].height \in back
                       /\ mine[i].id = hprev[mine[i].height]
                       /\ mine[i].height =
                              IF i = 1 THEN Len(hprev)
                              ELSE mine[i - 1].height - 1
                       /\ i > 1 => mine[i - 1].kind = "rollback"
                  ELSE /\ mine[i].height \in forth
                       /\ mine[i].id = htick.peer[mine[i].height]
                       /\ back \subseteq HeightsOf(mine, "rollback")
                       /\ mine[i].height =
                              IF i = 1 THEN Len(hprev) + 1
                              ELSE IF mine[i - 1].kind = "rollback"
                              THEN mine[i - 1].height
                              ELSE mine[i - 1].height + 1
            /\ (htick.pc = "idle" /\ htick.does = "adopted") =>
                  /\ HeightsOf(mine, "rollback") = back
                  /\ HeightsOf(mine, "apply") = forth
            /\ (htick.pc = "idle" /\ htick.does # "adopted") => mine = <<>>

\* A finished reorg two headers deep that applied three, seen by an
\* observer.
C18_Witness ==
    /\ Observers # {}
    /\ htick.pc = "idle"
    /\ htick.does = "adopted"
    /\ Len(hprev) - htick.a >= 2
    /\ Len(hchain) - htick.a >= 3
    /\ Len(hlog) >= 5

\* A finished reorg to a chain as long as the one it replaced.
EqualHeightReorg ==
    /\ Observers # {}
    /\ htick.pc = "idle"
    /\ htick.does = "adopted"
    /\ Len(hprev) = Len(hchain)
    /\ hlog # <<>>

\* A reorg deeper than the configured limit was refused.
ReorgRefused ==
    /\ htick.pc = "idle"
    /\ htick.does = "refused"
    /\ hchain = hprev

----------------------------------------------------------------------------
(* Properties of _pick_services (SpecPick)                                 *)

Returned == pick.op = "_pick_services" /\ pick.exc = ""

\* The number of secondary services at the head of the returned list.
Secondaries == Len(pick.value) - Len(primary)

\* C22: the list _pick_services returns ends with every primary service, in
\* order; the secondary services before them are pairwise distinct members
\* of self.services; the list has at least min_sources entries; and a
\* secondary is there only if the ones before it and the primaries were
\* fewer than min_sources, so there is none when the primaries alone reach
\* min_sources.
C22_PickedServices ==
    Returned =>
        /\ Secondaries >= 0
        /\ SubSeq(pick.value, Secondaries + 1, Len(pick.value)) = primary
        /\ \A i \in 1..Secondaries :
              /\ pick.value[i] \in Range(services)
              /\ \A j \in 1..Secondaries :
                    pick.value[i] = pick.value[j] => i = j
              /\ (i - 1) + Len(primary) < min_sources
        /\ Len(pick.value) >= min_sources
        /\ Len(primary) >= min_sources => Secondaries = 0

\* One primary and two distinct secondaries out of three were returned.
C22_Witness ==
    /\ Returned
    /\ Len(primary) = 1
    /\ Secondaries = 2
    /\ Cardinality(Range(services)) = 3

\* The primaries alone reach min_sources and are returned by themselves.
PrimariesSuffice ==
    Returned /\ Len(primary) >= min_sources /\ services # <<>>
        /\ pick.value = primary

====
